---- MODULE Spec2Model ----
(***************************************************************************)
(* examples/example2_mpi.py: the LFP of one cell is computed on a grid of  *)
(* contact points that is split over SIZE MPI ranks by the slice           *)
(* [RANK::SIZE]; the non-root ranks send their coordinates and LFP to rank *)
(* 0, all ranks meet in COMM.Barrier(), and rank 0 appends what it         *)
(* received to its own electrode.                                          *)
(*                                                                         *)
(* One process per rank runs the script top to bottom.  W is SIZE, N is    *)
(* the number of points of the flattened grid that are used (the script    *)
(* uses all GridSide * GridSide of them).                                  *)
(***************************************************************************)
EXTENDS Integers, Sequences, FiniteSets, TLC

\* Bounds of the model.
MaxW == 3
MaxN == 4

\* np.mgrid[-5:6, -5:6] * 10 (line 76): 11 values per axis, from -5, times 10.
GridSide == 11
GridLo == -5
GridStep == 10

\* Bounds of the forward model: compartments, timesteps, largest scale factor.
NumComp == 2
NumSteps == 2
MaxScale == 2

\* One unit of potential per unit of current at distance 1, in fixed point.
TransferUnit == 1000

VARIABLES
    W,          \* SIZE = COMM.Get_size()
    N,          \* number of points of the flattened grid
    scale,      \* factor applied to every compartment's current trace
    buffered,   \* the channel buffers a posted message (eager send) or not (rendezvous)
    pc,         \* pc[r]: position of rank r in the script
    crashed,    \* the ranks whose process has died
    electrode,  \* electrode[r]: the name `electrode` on rank r
    results,    \* results[r]: the name `results` on rank r
    i,          \* rank 0: next value of the xrange(1, SIZE) iterator
    m,          \* rank 0: number of elements of `results` the merge loop has taken
    chan,       \* messages posted by COMM.send and not yet matched by a recv
    sendCount,  \* history: sendCount[r] = number of COMM.send calls of rank r
    recvLog,    \* history: envelopes of the messages rank 0 received, in order
    arrived     \* the ranks that have called COMM.Barrier()

vars == <<W, N, scale, buffered, pc, crashed, electrode, results, i, m, chan,
          sendCount, recvLog, arrived>>

Ranks == 0 .. (W - 1)
NonRoot == 1 .. (W - 1)

----------------------------------------------------------------------------
\* The grid (lines 76-77), flattened in row-major order: point n is
\* (X[n \div 11][n % 11], 0, Z[n \div 11][n % 11]).

XFlat == [n \in 1 .. N |-> (((n - 1) \div GridSide) + GridLo) * GridStep]
ZFlat == [n \in 1 .. N |-> (((n - 1) % GridSide) + GridLo) * GridStep]
YFlat == [n \in 1 .. N |-> 0]

\* a[start::step] of a flat array, as the slice is resolved (start >= 0,
\* step > 0, stop = len(a)): its length is 0 when start is not below len(a)
\* and (len(a) - start - 1) // step + 1 otherwise, and its element k
\* (0-based) is a[start + k * step].
SliceLenFloor(n, start, step) ==
    IF start < n THEN (n - start) \div step ELSE 0

SliceLen(n, start, step) ==
    IF start < n THEN ((n - start - 1) \div step) + 1 ELSE 0

\* The slice taken one position late, a[start + 1::step].
SliceLate(a, start, step) ==
    [k \in 1 .. SliceLen(Len(a), start + 1, step) |-> a[start + 1 + (k - 1) * step + 1]]

\* The slice taken with a stop instead of a step, a[start:step].
SliceStop(a, start, step) ==
    [k \in 1 .. (IF start < step /\ start < Len(a)
                  THEN (IF step < Len(a) THEN step ELSE Len(a)) - start
                  ELSE 0) |-> a[start + k]]

Slice(a, start, step) ==
    [k \in 1 .. SliceLen(Len(a), start, step) |-> a[start + (k - 1) * step + 1]]

\* The three slices of electrodeParameters (lines 82-84) on rank r.
ParamX(r) == Slice(XFlat, r, W)
ParamY(r) == Slice(YFlat, r, W)
ParamZ(r) == Slice(ZFlat, r, W)

\* The forward model behind cell.simulate(electrode = ...): the morphology
\* is NumComp compartments, compartment c a point source at Midpoint(c) with
\* the current trace scale * BaseCurrent(c, t) over NumSteps timesteps.
Midpoint(c) == <<10 * c - 15, 3, 5 * c>>
BaseCurrent(c, t) == ((c + t) % 3) - 1
Current(c, t) == scale * BaseCurrent(c, t)

\* Integer square root.
ISqrt(n) == CHOOSE s \in 0 .. n : s * s <= n /\ (s + 1) * (s + 1) > n

Distance(c, px, py, pz) ==
    LET mid == Midpoint(c)
    IN  ISqrt((px - mid[1]) * (px - mid[1]) + (py - mid[2]) * (py - mid[2])
              + (pz - mid[3]) * (pz - mid[3]))

\* 1 / (4 pi sigma distance) in fixed-point units: what a unit current in
\* compartment c adds to the potential at (px, py, pz).
Transfer(c, px, py, pz) == TransferUnit \div Distance(c, px, py, pz)

\* Transfer for the points of the grid, by compartment and flat index.
TransferTable ==
    [c \in 1 .. NumComp |->
        [n \in 0 .. (GridSide * GridSide - 1) |->
            Transfer(c, ((n \div GridSide) + GridLo) * GridStep, 0,
                        ((n % GridSide) + GridLo) * GridStep)]]

GridIndex(px, pz) ==
    ((px \div GridStep) - GridLo) * GridSide + ((pz \div GridStep) - GridLo)

RECURSIVE Superposition(_, _, _)
Superposition(c, t, n) ==
    IF c = 0 THEN 0
    ELSE Current(c, t) * TransferTable[c][n] + Superposition(c - 1, t, n)

\* A potential that adds a fixed baseline to the superposition.
PotentialWithOffset(px, py, pz) ==
    [t \in 1 .. NumSteps |-> Superposition(NumComp, t, GridIndex(px, pz)) + 1]

\* One row of electrode.LFP: the potential trace at contact (px, py, pz), the
\* superposition of the contributions of all compartments at each timestep.
Potential(px, py, pz) ==
    [t \in 1 .. NumSteps |-> Superposition(NumComp, t, GridIndex(px, pz))]

\* The values the names `electrode` and `results` can have.
Undefined == [kind |-> "undefined", x |-> <<>>, y |-> <<>>, z |-> <<>>, LFP |-> <<>>]
NoneElectrode == [kind |-> "None", x |-> <<>>, y |-> <<>>, z |-> <<>>, LFP |-> <<>>]
RecExtElectrode(px, py, pz) ==
    [kind |-> "contacts", x |-> px, y |-> py, z |-> pz, LFP |-> <<>>]

ResultsUndefined == [kind |-> "undefined", items |-> <<>>]
ResultsNone == [kind |-> "None", items |-> <<>>]
ResultsList(s) == [kind |-> "list", items |-> s]

\* np.r_[a, b] of two arrays: concatenation along the first axis.
r_(a, b) == a \o b

----------------------------------------------------------------------------
Init ==
    /\ W \in 1 .. MaxW
    /\ N \in (0 .. MaxN) \cup {GridSide * GridSide}
    /\ scale = 1
    /\ buffered \in BOOLEAN
    /\ pc = [r \in Ranks |-> "Idle"]
    /\ crashed = {}
    /\ electrode = [r \in Ranks |-> Undefined]
    /\ results = [r \in Ranks |-> ResultsUndefined]
    /\ i = 1
    /\ m = 0
    /\ chan = {}
    /\ sendCount = [r \in Ranks |-> 0]
    /\ recvLog = <<>>
    /\ arrived = {}

\* A script that goes from the electrode straight to the gather, without
\* lines 96-110.
CreateElectrodeThenGather(r) ==
    /\ r \notin crashed
    /\ pc[r] = "Idle"
    /\ electrode' = [electrode EXCEPT ![r] =
                        RecExtElectrode(ParamX(r), ParamY(r), ParamZ(r))]
    /\ pc' = [pc EXCEPT ![r] = IF r = 0 THEN "Collecting" ELSE "Sending"]
    /\ UNCHANGED <<W, N, scale, buffered, crashed, results, i, m, chan,
                   sendCount, recvLog, arrived>>

\* Lines 76-93: the grid, electrodeParameters and the electrode object.
CreateElectrode(r) ==
    /\ r \notin crashed
    /\ pc[r] = "Idle"
    /\ electrode' = [electrode EXCEPT ![r] =
                        RecExtElectrode(ParamX(r), ParamY(r), ParamZ(r))]
    /\ pc' = [pc EXCEPT ![r] = "Computing"]
    /\ UNCHANGED <<W, N, scale, buffered, crashed, results, i, m, chan, sendCount,
                   recvLog, arrived>>

\* Line 107: the electrode after cell.simulate(electrode = electrode).
Simulated(el) ==
    [el EXCEPT !.kind = "recorded",
               !.LFP = [k \in 1 .. Len(el.x) |->
                           Potential(el.x[k], el.y[k], el.z[k])]]

\* Lines 96-110: cell.simulate(electrode = electrode) gives the electrode one
\* LFP row per contact; then results = [].  Rank 0 goes on to the receive
\* loop, every other rank to its send (line 112).
Simulate(r) ==
    /\ r \notin crashed
    /\ pc[r] = "Computing"
    /\ electrode' = [electrode EXCEPT ![r] = Simulated(@)]
    /\ results' = [results EXCEPT ![r] = ResultsList(<<>>)]
    /\ pc' = [pc EXCEPT ![r] = IF r = 0 THEN "Collecting" ELSE "Sending"]
    /\ UNCHANGED <<W, N, scale, buffered, crashed, i, m, chan, sendCount, recvLog,
                   arrived>>

\* Line 117: the message a non-root rank builds.
Result(r) ==
    <<electrode[r].x, electrode[r].y, electrode[r].z, electrode[r].LFP>>

\* Line 118: the destination of COMM.send.
SendDest == 0

\* A send that is made only when the rank has contacts.
SendPostIfAny(r) ==
    /\ r \notin crashed
    /\ r # 0
    /\ pc[r] = "Sending"
    /\ Len(electrode[r].x) > 0
    /\ chan' = chan \cup {[src |-> r, dest |-> SendDest, payload |-> Result(r)]}
    /\ sendCount' = [sendCount EXCEPT ![r] = @ + 1]
    /\ pc' = [pc EXCEPT ![r] = "InSend"]
    /\ UNCHANGED <<W, N, scale, buffered, crashed, electrode, results, i, m,
                   recvLog, arrived>>

\* Lines 117-118, first half: COMM.send(result, dest=0) posts the message
\* and the rank waits inside the call.
SendPost(r) ==
    /\ r \notin crashed
    /\ r # 0
    /\ pc[r] = "Sending"
    /\ chan' = chan \cup {[src |-> r, dest |-> SendDest, payload |-> Result(r)]}
    /\ sendCount' = [sendCount EXCEPT ![r] = @ + 1]
    /\ pc' = [pc EXCEPT ![r] = "InSend"]
    /\ UNCHANGED <<W, N, scale, buffered, crashed, electrode, results, i, m,
                   recvLog, arrived>>

\* The sources of the messages rank 0 has received.
ReceivedFrom == {recvLog[k].src : k \in 1 .. Len(recvLog)}

\* A send that never waits for its message to be matched.
SendReturnsAtOnce(r) == TRUE

\* A standard-mode send returns once the message is buffered by the channel
\* or matched by a receive.
SendMayReturn(r) == buffered \/ (\A msg \in chan : msg.src # r)

\* The send branch without lines 119-120.
SendReturnKeeps(r) ==
    /\ r \notin crashed
    /\ r # 0
    /\ pc[r] = "InSend"
    /\ SendMayReturn(r)
    /\ pc' = [pc EXCEPT ![r] = "AtBarrier"]
    /\ UNCHANGED <<W, N, scale, buffered, crashed, electrode, results, i, m, chan,
                   sendCount, recvLog, arrived>>

\* Lines 118-120: COMM.send returns; results = None; electrode = None.
SendReturn(r) ==
    /\ r \notin crashed
    /\ r # 0
    /\ pc[r] = "InSend"
    /\ SendMayReturn(r)
    /\ results' = [results EXCEPT ![r] = ResultsNone]
    /\ electrode' = [electrode EXCEPT ![r] = NoneElectrode]
    /\ pc' = [pc EXCEPT ![r] = "AtBarrier"]
    /\ UNCHANGED <<W, N, scale, buffered, crashed, i, m, chan, sendCount, recvLog,
                   arrived>>

\* The receive loop over xrange(1, SIZE + 1).
RecvLoopLong == i <= W

\* The receive loop over xrange(1, SIZE - 1).
RecvLoopShort == i < W - 1

\* Line 113: the loop runs while the iterator of xrange(1, SIZE) has a value.
RecvLoopRuns == i < W

\* A receive from the rank the loop counter names, COMM.recv(source=i).
RecvMatchesRank(msg) == msg.dest = 0 /\ msg.src = i

\* Line 114: COMM.recv(source=MPI.ANY_SOURCE) on rank 0 matches any message
\* addressed to rank 0.
RecvMatches(msg) == msg.dest = 0

\* A receive that leaves the message in the channel.
RecvPeek ==
    /\ 0 \notin crashed
    /\ pc[0] = "Collecting"
    /\ RecvLoopRuns
    /\ \E msg \in chan :
        /\ RecvMatches(msg)
        /\ results' = [results EXCEPT ![0] =
                          ResultsList(Append(@.items, msg.payload))]
        /\ recvLog' = Append(recvLog, [src |-> msg.src, dest |-> msg.dest])
    /\ i' = i + 1
    /\ UNCHANGED <<W, N, scale, buffered, pc, crashed, electrode, m, chan,
                   sendCount, arrived>>

\* A receive that puts the result in front, results.insert(0, result).
RecvInsertFront ==
    /\ 0 \notin crashed
    /\ pc[0] = "Collecting"
    /\ RecvLoopRuns
    /\ \E msg \in chan :
        /\ RecvMatches(msg)
        /\ chan' = chan \ {msg}
        /\ results' = [results EXCEPT ![0] =
                          ResultsList(<<msg.payload>> \o @.items)]
        /\ recvLog' = Append(recvLog, [src |-> msg.src, dest |-> msg.dest])
    /\ i' = i + 1
    /\ UNCHANGED <<W, N, scale, buffered, pc, crashed, electrode, m, sendCount,
                   arrived>>

\* A receive that does not wait: without a message it collects an empty
\* result.
RecvNoWait ==
    /\ 0 \notin crashed
    /\ pc[0] = "Collecting"
    /\ RecvLoopRuns
    /\ \/ \E msg \in chan :
            /\ RecvMatches(msg)
            /\ chan' = chan \ {msg}
            /\ results' = [results EXCEPT ![0] =
                              ResultsList(Append(@.items, msg.payload))]
            /\ recvLog' = Append(recvLog, [src |-> msg.src, dest |-> msg.dest])
       \/ /\ \A msg \in chan : ~RecvMatches(msg)
          /\ results' = [results EXCEPT ![0] =
                            ResultsList(Append(@.items, <<<<>>, <<>>, <<>>, <<>>>>))]
          /\ UNCHANGED <<chan, recvLog>>
    /\ i' = i + 1
    /\ UNCHANGED <<W, N, scale, buffered, pc, crashed, electrode, m, sendCount,
                   arrived>>

\* Lines 113-115: one iteration of the receive loop.
Recv ==
    /\ 0 \notin crashed
    /\ pc[0] = "Collecting"
    /\ RecvLoopRuns
    /\ \E msg \in chan :
        /\ RecvMatches(msg)
        /\ chan' = chan \ {msg}
        /\ results' = [results EXCEPT ![0] =
                          ResultsList(Append(@.items, msg.payload))]
        /\ recvLog' = Append(recvLog, [src |-> msg.src, dest |-> msg.dest])
    /\ i' = i + 1
    /\ UNCHANGED <<W, N, scale, buffered, pc, crashed, electrode, m, sendCount,
                   arrived>>

\* Line 113: the iterator is exhausted; rank 0 leaves the loop.
RecvLoopExit ==
    /\ 0 \notin crashed
    /\ pc[0] = "Collecting"
    /\ ~RecvLoopRuns
    /\ pc' = [pc EXCEPT ![0] = "AtBarrier"]
    /\ UNCHANGED <<W, N, scale, buffered, crashed, electrode, results, i, m, chan,
                   sendCount, recvLog, arrived>>

\* Line 122: the rank calls COMM.Barrier() and waits in it.
BarrierEnter(r) ==
    /\ r \notin crashed
    /\ pc[r] = "AtBarrier"
    /\ arrived' = arrived \cup {r}
    /\ pc' = [pc EXCEPT ![r] = "Synchronized"]
    /\ UNCHANGED <<W, N, scale, buffered, crashed, electrode, results, i, m, chan,
                   sendCount, recvLog>>

\* A barrier that opens as soon as one rank has called it.
BarrierOpenEarly == arrived # {}

\* The barrier lets a rank go once every rank of COMM_WORLD has called it.
BarrierOpen == arrived = Ranks

\* Lines 122-124, 141-142: COMM.Barrier() returns.  Rank 0 goes on to the
\* merge loop; the other ranks have nothing left to do.
BarrierExit(r) ==
    /\ r \notin crashed
    /\ pc[r] = "Synchronized"
    /\ BarrierOpen
    /\ pc' = [pc EXCEPT ![r] = IF r = 0 THEN "Merging" ELSE "Done"]
    /\ UNCHANGED <<W, N, scale, buffered, crashed, electrode, results, i, m, chan,
                   sendCount, recvLog, arrived>>

\* The merge without line 131.
MergedSkipsLFP(el, result) ==
    [el EXCEPT !.x = r_(el.x, result[1]),
               !.y = r_(el.y, result[2]),
               !.z = r_(el.z, result[3])]

\* The merge that assigns the received arrays instead of appending them.
MergedOverwrite(el, result) ==
    [el EXCEPT !.x = result[1], !.y = result[2], !.z = result[3],
               !.LFP = result[4]]

\* The merge with the arguments of np.r_ swapped.
MergedPrepend(el, result) ==
    [el EXCEPT !.x = r_(result[1], el.x),
               !.y = r_(result[2], el.y),
               !.z = r_(result[3], el.z),
               !.LFP = r_(result[4], el.LFP)]

\* Lines 128-131: the electrode with one received result appended.
Merged(el, result) ==
    [el EXCEPT !.x = r_(el.x, result[1]),
               !.y = r_(el.y, result[2]),
               !.z = r_(el.z, result[3]),
               !.LFP = r_(el.LFP, result[4])]

\* Lines 127-131: one iteration of `for result in results`.
MergeStep ==
    /\ 0 \notin crashed
    /\ pc[0] = "Merging"
    /\ m < Len(results[0].items)
    /\ electrode' = [electrode EXCEPT ![0] = Merged(@, results[0].items[m + 1])]
    /\ m' = m + 1
    /\ UNCHANGED <<W, N, scale, buffered, pc, crashed, results, i, chan, sendCount,
                   recvLog, arrived>>

\* Lines 127, 134-139: the merge loop ends; the electrode is handed to the
\* plotting code.
MergeLoopExit ==
    /\ 0 \notin crashed
    /\ pc[0] = "Merging"
    /\ m >= Len(results[0].items)
    /\ pc' = [pc EXCEPT ![0] = "Done"]
    /\ UNCHANGED <<W, N, scale, buffered, crashed, electrode, results, i, m, chan,
                   sendCount, recvLog, arrived>>

\* The process of rank r dies (an uncaught error, a kill).  The script has
\* no handler and no timeout.  A message of r that the channel has not
\* buffered dies with it.
Crash(r) ==
    /\ r \notin crashed
    /\ pc[r] # "Done"
    /\ crashed' = crashed \cup {r}
    /\ chan' = {msg \in chan : msg.src # r \/ buffered}
    /\ UNCHANGED <<W, N, scale, buffered, pc, electrode, results, i, m, sendCount,
                   recvLog, arrived>>

Next ==
    \/ \E r \in Ranks : CreateElectrode(r)
    \/ \E r \in Ranks : Simulate(r)
    \/ \E r \in Ranks : SendPost(r)
    \/ \E r \in Ranks : SendReturn(r)
    \/ Recv
    \/ RecvLoopExit
    \/ \E r \in Ranks : BarrierEnter(r)
    \/ \E r \in Ranks : BarrierExit(r)
    \/ MergeStep
    \/ MergeLoopExit
    \/ \E r \in Ranks : Crash(r)

Spec == Init /\ [][Next]_vars

\* The same script run on current traces scaled by a constant.
InitScaled ==
    /\ W \in 1 .. MaxW
    /\ N \in 0 .. MaxN
    /\ scale \in (-1) .. MaxScale
    /\ buffered \in BOOLEAN
    /\ pc = [r \in Ranks |-> "Idle"]
    /\ crashed = {}
    /\ electrode = [r \in Ranks |-> Undefined]
    /\ results = [r \in Ranks |-> ResultsUndefined]
    /\ i = 1
    /\ m = 0
    /\ chan = {}
    /\ sendCount = [r \in Ranks |-> 0]
    /\ recvLog = <<>>
    /\ arrived = {}

SpecScaled == InitScaled /\ [][Next]_vars

\* The script with every process alive to the end.
NextAlive ==
    \/ \E r \in Ranks : CreateElectrode(r)
    \/ \E r \in Ranks : Simulate(r)
    \/ \E r \in Ranks : SendPost(r)
    \/ \E r \in Ranks : SendReturn(r)
    \/ Recv
    \/ RecvLoopExit
    \/ \E r \in Ranks : BarrierEnter(r)
    \/ \E r \in Ranks : BarrierExit(r)
    \/ MergeStep
    \/ MergeLoopExit

\* The steps of the process of rank r.
ProcStep(r) ==
    /\ r \in Ranks
    /\ \/ CreateElectrode(r)
       \/ Simulate(r)
       \/ SendPost(r)
       \/ SendReturn(r)
       \/ BarrierEnter(r)
       \/ BarrierExit(r)
       \/ r = 0 /\ (Recv \/ RecvLoopExit \/ MergeStep \/ MergeLoopExit)

\* Every rank is a process of its own that runs whenever it can: a rank that
\* stays able to take its next step takes it.
FairSpec ==
    /\ Init
    /\ [][NextAlive]_vars
    /\ \A r \in 0 .. (MaxW - 1) : WF_vars(ProcStep(r))

----------------------------------------------------------------------------
\* Vocabulary of the properties.

\* The index, in the flattened grid, of the point with coordinates (px, pz).
PointIndex(px, pz) ==
    ((px \div GridStep) - GridLo) * GridSide + ((pz \div GridStep) - GridLo)

\* The point indices an electrode holds, in the order of its contacts.
Indices(el) == [k \in 1 .. Len(el.x) |-> PointIndex(el.x[k], el.z[k])]
IndexSet(el) == {PointIndex(el.x[k], el.z[k]) : k \in 1 .. Len(el.x)}

\* electrode[r] holds exactly what rank r took for itself: the electrode
\* exists and, on rank 0, nothing has been appended to it yet.
HoldsOwn(r) ==
    /\ electrode[r].kind \in {"contacts", "recorded"}
    /\ r = 0 => m = 0

AllHoldOwn == \A r \in Ranks : HoldsOwn(r)

\* The indices of 0 .. N-1 congruent to r modulo W.
Congruent(r) == {n \in 0 .. (N - 1) : n % W = r}

Increasing(s) == \A k \in 1 .. (Len(s) - 1) : s[k] < s[k + 1]

Canonical == [k \in 1 .. N |-> k - 1]

AllDone == \A r \in Ranks : pc[r] = "Done"

PastBarrier(r) == pc[r] \in {"Merging", "Done"}

\* C1: the partitions the ranks take are pairwise disjoint, lie in 0 .. N-1
\* and hold no index twice; once every rank has taken its partition, their
\* union is 0 .. N-1, so every index is in the partition of exactly one rank.
C1_PartitionsDisjointAndComplete ==
    LET part == [r \in Ranks |-> IndexSet(electrode[r])]
    IN  /\ \A r \in Ranks : HoldsOwn(r) =>
              /\ part[r] \subseteq 0 .. (N - 1)
              /\ Cardinality(part[r]) = Len(electrode[r].x)
        /\ \A r, q \in Ranks : (r # q /\ HoldsOwn(r) /\ HoldsOwn(q)) =>
              part[r] \cap part[q] = {}
        /\ AllHoldOwn =>
              UNION {part[r] : r \in Ranks} = 0 .. (N - 1)

C1_Witness == AllHoldOwn /\ W = 3 /\ N = 4

\* C5: rank r takes exactly the indices n of 0 .. N-1 with n mod W = r, in
\* increasing order, so what it takes is determined by (r, W, N).
C5_RoundRobinInOrder ==
    \A r \in Ranks : HoldsOwn(r) =>
        /\ IndexSet(electrode[r]) = Congruent(r)
        /\ LET idx == Indices(electrode[r]) IN Increasing(idx)
        /\ Len(electrode[r].y) = Len(electrode[r].x)
        /\ Len(electrode[r].z) = Len(electrode[r].x)

C5_Witness ==
    /\ W = 2
    /\ N = GridSide * GridSide
    /\ HoldsOwn(1)
    /\ Indices(electrode[1])[1] = 1
    /\ Indices(electrode[1])[7] = 13

CeilDiv(a, b) == (a + b - 1) \div b

RECURSIVE SumOwn(_)
SumOwn(r) == IF r < 0 THEN 0 ELSE Len(electrode[r].x) + SumOwn(r - 1)

\* C9: the size of rank r's partition is the number of n in 0 .. N-1 with
\* n mod W = r, which is ceil((N - r) / W) for r < N and 0 otherwise; two
\* partitions differ in size by at most one and all together have N points;
\* for N = 121 and W = 2 rank 0 takes 61 points (the even indices) and rank 1
\* takes 60 (the odd ones), and the merged electrode of a finished run holds
\* each of the 121 points once.
C9_PartitionSizes ==
    /\ \A r \in Ranks : HoldsOwn(r) =>
          /\ Len(electrode[r].x) = Cardinality(Congruent(r))
          /\ Len(electrode[r].x) = IF r < N THEN CeilDiv(N - r, W) ELSE 0
    /\ \A r, q \in Ranks : (HoldsOwn(r) /\ HoldsOwn(q)) =>
          Len(electrode[r].x) - Len(electrode[q].x) \in {-1, 0, 1}
    /\ AllHoldOwn => SumOwn(W - 1) = N
    /\ (N = 121 /\ W = 2) =>
          /\ HoldsOwn(0) =>
                /\ Len(electrode[0].x) = 61
                /\ \A n \in IndexSet(electrode[0]) : n % 2 = 0
          /\ HoldsOwn(1) =>
                /\ Len(electrode[1].x) = 60
                /\ \A n \in IndexSet(electrode[1]) : n % 2 = 1
          /\ AllDone =>
                /\ Len(electrode[0].x) = 121
                /\ IndexSet(electrode[0]) = 0 .. 120

C9_Witness ==
    /\ N = 121
    /\ W = 2
    /\ AllDone
    /\ Len(electrode[0].x) = 121

\* C2: when every rank is Done, rank 0's electrode holds each point index of
\* 0 .. N-1 exactly once: N contacts, no index missing, none twice (whatever
\* the order in which the messages were received).
C2_MergedCoversEachPointOnce ==
    AllDone =>
        /\ Len(electrode[0].x) = N
        /\ IndexSet(electrode[0]) = 0 .. (N - 1)
        /\ Len(electrode[0].z) = N

C2_Witness ==
    /\ AllDone
    /\ W = 3
    /\ N = 4
    /\ Len(recvLog) = 2
    /\ recvLog[1].src = 2
    /\ Indices(electrode[0]) = <<0, 3, 2, 1>>

\* C3: the root never sends and no rank sends twice; every message is from a
\* non-root rank to rank 0; no message is received twice; when every rank is
\* Done each non-root rank has sent exactly one message, rank 0 has done
\* exactly W-1 receives, one of each non-root rank's message, and no message
\* is left in the channel.
C3_OneMessagePerNonRoot ==
    /\ sendCount[0] = 0
    /\ \A r \in Ranks : sendCount[r] <= 1
    /\ \A msg \in chan : msg.dest = 0 /\ msg.src \in NonRoot
    /\ \A k \in 1 .. Len(recvLog) :
          /\ recvLog[k].dest = 0
          /\ recvLog[k].src \in NonRoot
          /\ \A j \in 1 .. Len(recvLog) : recvLog[j].src = recvLog[k].src => j = k
    /\ \A msg \in chan : msg.src \notin ReceivedFrom
    /\ AllDone =>
          /\ \A r \in NonRoot : sendCount[r] = 1
          /\ Len(recvLog) = W - 1
          /\ i = W
          /\ ReceivedFrom = NonRoot
          /\ Len(results[0].items) = W - 1
          /\ chan = {}

C3_Witness == AllDone /\ W = 3 /\ Len(recvLog) = 2 /\ ~buffered

\* C4: no rank is past the barrier before every rank has called it, and
\* rank 0 calls it only after W-1 receives; so whenever some rank is past the
\* barrier every non-root rank has sent its message and rank 0 has received
\* it.
C4_BarrierAfterGather ==
    /\ (\E r \in Ranks : PastBarrier(r)) =>
          /\ arrived = Ranks
          /\ \A q \in Ranks : pc[q] \in {"Synchronized", "Merging", "Done"}
          /\ \A q \in NonRoot : sendCount[q] = 1 /\ q \in ReceivedFrom
          /\ chan = {}
    /\ (0 \in arrived \/ pc[0] = "AtBarrier") =>
          /\ Len(recvLog) = W - 1
          /\ Len(results[0].items) = W - 1
          /\ ReceivedFrom = NonRoot

C4_Witness ==
    /\ W = 3
    /\ pc[1] = "Done"
    /\ pc[2] = "Synchronized"
    /\ pc[0] = "Synchronized"

\* The electrode of a run that does not distribute the points: all N contacts
\* in index order.
SerialElectrode == Simulated(RecExtElectrode(XFlat, YFlat, ZFlat))

\* C6: with W = 1 rank 0 receives nothing, is never held in the receive loop
\* nor in the barrier, and what it ends with is its own electrode, which is
\* the electrode of a run over all N points in index order 0 .. N-1.
C6_SingleRankIsSerial ==
    W = 1 =>
        /\ recvLog = <<>>
        /\ chan = {}
        /\ i = 1
        /\ results[0].items = <<>>
        /\ m = 0
        /\ (pc[0] = "Collecting" /\ 0 \notin crashed) => ENABLED RecvLoopExit
        /\ (pc[0] = "Synchronized" /\ 0 \notin crashed) => ENABLED BarrierExit(0)
        /\ pc[0] \in {"Collecting", "AtBarrier", "Synchronized", "Merging", "Done"} =>
              /\ electrode[0] = SerialElectrode
              /\ Indices(electrode[0]) = Canonical

C6_Witness ==
    /\ W = 1
    /\ N = 4
    /\ pc[0] = "Done"
    /\ Indices(electrode[0]) = <<0, 1, 2, 3>>

\* Rank r is dead and no message of it has reached or can reach rank 0.
NeverSends(r) ==
    /\ r \in crashed
    /\ r \notin ReceivedFrom
    /\ \A msg \in chan : msg.src # r

\* C7: once a non-root rank is dead without its message, rank 0 is not past
\* the receive loop and cannot leave it: it has not called the barrier, no
\* rank is past the barrier, and nothing has been merged.
C7_MissingSenderBlocksRoot ==
    (\E r \in NonRoot : NeverSends(r)) =>
        /\ pc[0] \in {"Idle", "Computing", "Collecting"}
        /\ 0 \notin arrived
        /\ ~ENABLED RecvLoopExit
        /\ \A q \in Ranks : ~PastBarrier(q)
        /\ m = 0
        /\ Len(recvLog) < W - 1

C7_Witness ==
    /\ W = 3
    /\ NeverSends(2)
    /\ pc[0] = "Collecting"
    /\ ReceivedFrom = {1}
    /\ pc[1] = "Synchronized"

\* C8: a finished run leaves a permutation of 0 .. N-1 in rank 0's electrode,
\* and not the sequence 0, 1, ..., N-1: with W >= 2 ranks and more points
\* than ranks the merged order always differs from the index order, and for
\* W = 2, N = 3 it is 0, 2, 1.
C8_MergedOrderNotCanonical ==
    AllDone =>
        /\ Len(electrode[0].x) = N /\ IndexSet(electrode[0]) = 0 .. (N - 1)
        /\ (W >= 2 /\ N > W) => Indices(electrode[0]) # Canonical
        /\ (W = 2 /\ N = 3) => Indices(electrode[0]) = <<0, 2, 1>>

C8_Witness ==
    /\ AllDone
    /\ W = 2
    /\ N = 3
    /\ Indices(electrode[0]) = <<0, 2, 1>>
    /\ Indices(electrode[0]) # Canonical

\* C10: a non-root rank never holds a received or merged result, and from
\* the return of its send on both its `results` and its `electrode` are
\* None; rank 0's electrode holds more than rank 0's own points only after
\* rank 0 has passed the barrier.
C10_MergedOnlyOnRootAfterBarrier ==
    /\ \A r \in NonRoot :
          /\ results[r].items = <<>>
          /\ IndexSet(electrode[r]) \subseteq Congruent(r)
          /\ pc[r] \in {"AtBarrier", "Synchronized", "Done"} =>
                /\ results[r] = ResultsNone
                /\ electrode[r] = NoneElectrode
    /\ (m > 0 \/ ~(IndexSet(electrode[0]) \subseteq Congruent(0))) =>
          /\ PastBarrier(0)
          /\ arrived = Ranks
    /\ pc[0] \notin {"Merging", "Done"} => Len(electrode[0].x) <= Cardinality(Congruent(0))

C10_Witness ==
    /\ W = 2
    /\ N = 4
    /\ pc[1] = "Done"
    /\ electrode[1] = NoneElectrode
    /\ results[1] = ResultsNone
    /\ pc[0] = "Done"
    /\ Len(electrode[0].x) = 4

RECURSIVE UnitSum(_, _, _)
UnitSum(c, t, n) ==
    IF c = 0 THEN 0
    ELSE BaseCurrent(c, t) * TransferTable[c][n] + UnitSum(c - 1, t, n)

\* The potential trace at (px, py, pz) for the unscaled currents.
UnitPotential(px, py, pz) ==
    [t \in 1 .. NumSteps |-> UnitSum(NumComp, t, GridIndex(px, pz))]

Scaled(k, trace) == [t \in 1 .. Len(trace) |-> k * trace[t]]

\* Every potential row of the four arrays a is `scale` times the potential
\* of its point for the unscaled currents.
RowsScaled(ax, ay, az, aLFP) ==
    \A k \in 1 .. Len(aLFP) :
        aLFP[k] = Scaled(scale, UnitPotential(ax[k], ay[k], az[k]))

OwnSeq(r) == [k \in 1 .. Cardinality(Congruent(r)) |-> r + (k - 1) * W]

\* Rank 0's own indices followed by the blocks of the senders of the first j
\* received messages, in the order of reception.
RECURSIVE BlocksUpTo(_)
BlocksUpTo(j) ==
    IF j = 0 THEN OwnSeq(0) ELSE BlocksUpTo(j - 1) \o OwnSeq(recvLog[j].src)

\* The point indices of a received result.
ResultIndices(res) == [k \in 1 .. Len(res[1]) |-> PointIndex(res[1][k], res[3][k])]

\* C12: each received result is its sender's block in increasing index
\* order; after m merge iterations rank 0's electrode is rank 0's own
\* partition followed by the first m received blocks, each kept whole, in the
\* order of reception (not of rank); at Done all W-1 blocks are appended.
C12_MergedIsOwnThenBlocksInArrivalOrder ==
    /\ Len(results[0].items) = Len(recvLog)
    /\ \A k \in 1 .. Len(results[0].items) :
          ResultIndices(results[0].items[k]) = OwnSeq(recvLog[k].src)
    /\ pc[0] \in {"Merging", "Done"} =>
          /\ m <= Len(recvLog)
          /\ Indices(electrode[0]) = BlocksUpTo(m)
    /\ pc[0] = "Done" => m = W - 1

C12_Witness ==
    /\ W = 3
    /\ N = 4
    /\ pc[0] = "Done"
    /\ recvLog[1].src = 2
    /\ recvLog[2].src = 1
    /\ Indices(electrode[0]) = OwnSeq(0) \o OwnSeq(2) \o OwnSeq(1)
    /\ Indices(electrode[0]) # OwnSeq(0) \o OwnSeq(1) \o OwnSeq(2)

\* The four arrays have n points / rows.
FourOfLength(ax, ay, az, aLFP, n) ==
    Len(ax) = n /\ Len(ay) = n /\ Len(az) = n /\ Len(aLFP) = n

C18_MergedOrderFollowsArrivalOnly ==
    /\ AllDone =>
          /\ ReceivedFrom = NonRoot
          /\ Len(recvLog) = W - 1
          /\ Indices(electrode[0]) = BlocksUpTo(W - 1)
          /\ IndexSet(electrode[0]) = 0 .. (N - 1)
          /\ W = 1 => Indices(electrode[0]) = OwnSeq(0)
          /\ W = 2 => Indices(electrode[0]) = OwnSeq(0) \o OwnSeq(1)
    /\ (pc[0] = "Collecting" /\ 0 \notin crashed /\ RecvLoopRuns) =>
          \A msg \in chan :
              ENABLED (Recv /\ recvLog' =
                          Append(recvLog, [src |-> msg.src, dest |-> msg.dest]))

C18_Witness ==
    /\ AllDone
    /\ W = 3
    /\ N = 4
    /\ Indices(electrode[0]) = <<0, 3, 2, 1>>
    /\ OwnSeq(0) \o OwnSeq(1) \o OwnSeq(2) = <<0, 3, 1, 2>>

\* The call COMM.send of rank r has returned.
SendCompleted(r) == pc[r] \in {"AtBarrier", "Synchronized", "Done"}

\* Rank 0 is dead and has not received any message.
RootDiedBeforeReceiving == 0 \in crashed /\ Len(recvLog) = 0

\* C15 as stated: once rank 0 is dead without having received, no non-root
\* rank completes its send and none reaches Done, buffered channel or not.
C15_Original ==
    RootDiedBeforeReceiving =>
        \A r \in NonRoot : ~SendCompleted(r)

\* C15, amended: once rank 0 is dead without having received, no non-root
\* rank passes the barrier or reaches Done; with an unbuffered channel no
\* non-root send returns either, while with a buffered channel a send can
\* return and its rank then waits in the barrier.
C15_RootCrashStopsNonRoots ==
    RootDiedBeforeReceiving =>
        /\ \A r \in NonRoot : pc[r] # "Done" /\ ~ENABLED BarrierExit(r)
        /\ ~buffered => \A r \in NonRoot : ~SendCompleted(r)
        /\ \A r \in NonRoot : SendCompleted(r) => buffered /\ sendCount[r] = 1

C15_Witness ==
    /\ RootDiedBeforeReceiving
    /\ W = 3
    /\ buffered
    /\ pc[1] = "Synchronized"
    /\ pc[2] = "Synchronized"

\* Rank r died inside an unbuffered send before its message was received.
LostInSend(r) ==
    r \in crashed /\ pc[r] = "InSend" /\ ~buffered /\ r \notin ReceivedFrom

Gathered == Len(results[0].items) + Cardinality(chan)

\* C19 as stated: once a rank is past the barrier the channel is empty and
\* rank 0's results has W-1 entries; before that, entries plus messages in
\* flight is at most W-1 and equals the number of non-root ranks whose send
\* has completed.
C19_Original ==
    /\ (\E r \in Ranks : PastBarrier(r)) =>
          chan = {} /\ Len(results[0].items) = W - 1
    /\ (\A r \in Ranks : ~PastBarrier(r)) =>
          /\ Gathered <= W - 1
          /\ Gathered = Cardinality({r \in NonRoot : SendCompleted(r)})

\* C19, amended: once a rank is past the barrier the channel is empty and
\* rank 0's results has W-1 entries; before that, entries plus messages in
\* flight is at most W-1, equals the number of non-root ranks that have
\* posted their message and did not die inside an unbuffered send before it
\* was received, and is at least the number of ranks whose send has returned.
C19_GatheredCountsPostedMessages ==
    /\ (\E r \in Ranks : PastBarrier(r)) =>
          chan = {} /\ Len(results[0].items) = W - 1
    /\ (\A r \in Ranks : ~PastBarrier(r)) =>
          /\ Gathered <= W - 1
          /\ Gathered = Cardinality({r \in NonRoot :
                                       sendCount[r] = 1 /\ ~LostInSend(r)})
          /\ Gathered >= Cardinality({r \in NonRoot : SendCompleted(r)})

C19_Witness ==
    /\ W = 3
    /\ ~buffered
    /\ \A r \in Ranks : ~PastBarrier(r)
    /\ Len(results[0].items) = 1
    /\ Cardinality(chan) = 1
    /\ Cardinality({r \in NonRoot : SendCompleted(r)}) = 1

\* The states of the protocol: where in it a script position lies.
Phase(p) ==
    CASE p \in {"Sending", "InSend"} -> "Sending"
      [] p \in {"AtBarrier", "Synchronized"} -> "Synchronized"
      [] OTHER -> p

\* The moves from one protocol state to the next, for rank r.
PhaseMoves(r) ==
    IF r = 0
    THEN {<<"Idle", "Computing">>, <<"Computing", "Collecting">>,
          <<"Collecting", "Synchronized">>, <<"Synchronized", "Merging">>,
          <<"Merging", "Done">>}
    ELSE {<<"Idle", "Computing">>, <<"Computing", "Sending">>,
          <<"Sending", "Synchronized">>, <<"Synchronized", "Done">>}

\* C13: every rank goes through Idle, Computing, Sending (non-root) or
\* Collecting (root), Synchronized, Merging (root only), Done in this order,
\* one state at a time and never back; a non-root rank posts its message only
\* from Sending, with its simulation finished and one LFP row per contact;
\* rank 0 merges only after the barrier has opened.
C13_PhasesInOrder ==
    /\ [][\A r \in Ranks :
             /\ Phase(pc'[r]) # Phase(pc[r]) =>
                   <<Phase(pc[r]), Phase(pc'[r])>> \in PhaseMoves(r)
             /\ sendCount'[r] # sendCount[r] =>
                   /\ pc[r] = "Sending"
                   /\ electrode[r].kind = "recorded"
                   /\ Len(electrode[r].LFP) = Len(electrode[r].x)
             /\ (r = 0 /\ m' # m) => (pc[0] = "Merging" /\ BarrierOpen)]_vars
    /\ [](\A r \in Ranks :
             /\ pc[r] \in {"Sending", "InSend", "Collecting"} =>
                   electrode[r].kind = "recorded"
             /\ pc[r] \in {"Merging", "Done"} => BarrierOpen)

C13_Witness ==
    /\ W = 2
    /\ N = 3
    /\ pc[0] = "Merging"
    /\ m = 1
    /\ pc[1] = "Done"

\* C14: with fewer points than ranks every rank r >= N takes no point and
\* goes on: it sends one message with four empty arrays, rank 0 receives W-1
\* messages, every rank reaches Done, and the merged electrode holds each of
\* the N points once.
C14_EmptyPartitionsAreFine ==
    /\ [](N < W =>
            /\ \A r \in Ranks : (r >= N /\ HoldsOwn(r)) =>
                  FourOfLength(electrode[r].x, electrode[r].y, electrode[r].z,
                               electrode[r].LFP, 0)
            /\ \A msg \in chan : msg.src >= N =>
                  msg.payload = <<<<>>, <<>>, <<>>, <<>>>>
            /\ \A r \in NonRoot :
                  pc[r] \in {"InSend", "AtBarrier", "Synchronized", "Done"} =>
                      sendCount[r] = 1
            /\ AllDone =>
                  /\ Len(recvLog) = W - 1
                  /\ ReceivedFrom = NonRoot
                  /\ Len(electrode[0].x) = N
                  /\ IndexSet(electrode[0]) = 0 .. (N - 1))
    /\ (N < W) ~> AllDone

C14_Witness ==
    /\ W = 3
    /\ N = 1
    /\ AllDone
    /\ Len(recvLog) = 2
    /\ results[0].items = <<<<<<>>, <<>>, <<>>, <<>>>>, <<<<>>, <<>>, <<>>, <<>>>>>>
    /\ Len(electrode[0].x) = 1

\* C17: with every rank alive and running, every rank reaches Done, for
\* every W and N and with a buffered as with an unbuffered channel; short of
\* that some rank can always take a step.
C17_EveryRankReachesDone ==
    /\ <>AllDone
    /\ [](AllDone \/ ENABLED NextAlive)

C17_Witness ==
    /\ AllDone
    /\ W = 3
    /\ N = 4
    /\ ~buffered
    /\ Len(recvLog) = 2

====
